---- MODULE Spec2Model ----
(***************************************************************************)
(* A model of the physics core of rust_physics_toy (src/src/physics.rs)    *)
(* and of the producer side of its command channel (src/src/main.rs).      *)
(*                                                                         *)
(* Numbers.  The program computes in f32.  Here an f32 is an integer count *)
(* of 1/Scale units (Scale = 512, so 0.5 is 256 and 50.0 is 25600); every  *)
(* operation delivers the exact result rounded to the nearest multiple of  *)
(* 1/Scale, as an f32 operation delivers the exact result rounded to the   *)
(* nearest f32.  0.0/0.0 is NaN, which every operation propagates and      *)
(* every comparison answers with FALSE.  The decimal constants of the      *)
(* program are kept as exact ratios (0.998 is 998/1000).                   *)
(***************************************************************************)
EXTENDS Integers, Sequences, FiniteSets, TLC

VARIABLES
    frame_number,       \* Grid.frame_number
    width,              \* Grid.width
    height,             \* Grid.height
    circles,            \* Grid.circles
    static_circles,     \* Grid.static_circles
    static_rectangles,  \* Grid.static_rectangles
    queue,              \* the messages held by the mpsc channel
    parked,             \* the channel's "sender is parked" flag
    pc,                 \* where the frame stream's loop body is
    messages,           \* the Vec the loop drains the channel into
    sub,                \* sub-steps of the running tick already done
    todo,               \* cells of the spatial grid not yet visited by `grid.values()`
    frame,              \* the GridFrame last yielded
    attempts,           \* history: try_send calls made so far
    drains,             \* history: drains started so far
    applied,            \* history: the commands tick has applied, in order
    rejected,           \* history: ids of the commands try_send refused
    call                \* the narrow-phase harness: last call's input and output

vars == <<frame_number, width, height, circles, static_circles, static_rectangles,
          queue, parked, pc, messages, sub, todo, frame,
          attempts, drains, applied, rejected, call>>

----------------------------------------------------------------------------
(* f32 arithmetic *)

\* One unit of the number grid is 1/Scale.
Scale == 512

\* f32::NAN, kept apart from every number of the model.
NaN == -(2^30)

IsNaN(a) == a = NaN

Abs(a) == IF a < 0 THEN -a ELSE a

\* a / b rounded to the nearest integer, halves away from zero (b > 0).
RDiv(a, b) == IF a >= 0 THEN (2 * a + b) \div (2 * b)
              ELSE -((2 * (-a) + b) \div (2 * b))

FAdd(a, b) == IF IsNaN(a) \/ IsNaN(b) THEN NaN ELSE a + b

FSub(a, b) == IF IsNaN(a) \/ IsNaN(b) THEN NaN ELSE a - b

FNeg(a) == IF IsNaN(a) THEN NaN ELSE -a

FMul(a, b) == IF IsNaN(a) \/ IsNaN(b) THEN NaN ELSE RDiv(a * b, Scale)

\* a * (num/den) for a decimal constant num/den of the program.
FMulC(a, num, den) == IF IsNaN(a) THEN NaN ELSE RDiv(a * num, den)

\* a / b.  0.0 / 0.0 is NaN.  No division of the program has a zero divisor
\* and a non-zero dividend (its only unguarded divisor is a distance, whose
\* being zero makes both dividends zero), so infinities are not modelled.
FDiv(a, b) == IF IsNaN(a) \/ IsNaN(b) \/ b = 0 THEN NaN
              ELSE IF b > 0 THEN RDiv(a * Scale, b)
              ELSE RDiv((-a) * Scale, -b)

FLt(a, b) == ~IsNaN(a) /\ ~IsNaN(b) /\ a < b

FGt(a, b) == ~IsNaN(a) /\ ~IsNaN(b) /\ a > b

FLe(a, b) == ~IsNaN(a) /\ ~IsNaN(b) /\ a <= b

FGe(a, b) == ~IsNaN(a) /\ ~IsNaN(b) /\ a >= b

FAbs(a) == IF IsNaN(a) THEN NaN ELSE Abs(a)

\* f32::signum: 1.0 for every positive number and for +0.0 (the zero a
\* subtraction of equal numbers gives), -1.0 for negatives, NaN for NaN.
FSignum(a) == IF IsNaN(a) THEN NaN ELSE IF a >= 0 THEN Scale ELSE -Scale

RECURSIVE SqrtSearch(_, _, _)
SqrtSearch(n, lo, hi) ==
    IF lo = hi THEN lo
    ELSE LET mid == (lo + hi + 1) \div 2
         IN  IF mid * mid <= n THEN SqrtSearch(n, mid, hi)
             ELSE SqrtSearch(n, lo, mid - 1)

\* The integer nearest to the square root of n (0 <= n < 2^31).
ISqrt(n) == LET k == SqrtSearch(n, 0, 46340)
            IN  IF n - k * k > k THEN k + 1 ELSE k

\* (a*a + b*b).sqrt(): the sum of squares is carried exactly, as the 24
\* significant bits of an f32 carry it far below one unit of this grid.
Hypot(a, b) == IF IsNaN(a) \/ IsNaN(b) THEN NaN ELSE ISqrt(a * a + b * b)

\* a*b + c*d, a sum of two products, rounded once.
Dot(a, b, c, d) == IF IsNaN(a) \/ IsNaN(b) \/ IsNaN(c) \/ IsNaN(d) THEN NaN
                   ELSE RDiv(a * b + c * d, Scale)

----------------------------------------------------------------------------
(* The constants of physics.rs *)

SUBTICKS_PER_FRAME == 10

\* ELASTICITY_COEFFICIENT = 0.9 = ElasticityNum / ElasticityDen
ElasticityNum == 9
ElasticityDen == 10

\* AIR_DENSITY = 0.007 = AirDensityNum / AirDensityDen
AirDensityNum == 7
AirDensityDen == 1000

\* SIZE_COEFFICIENT_PER_TICK = 0.998 = SizeCoefficientNum / SizeCoefficientDen
SizeCoefficientNum == 998
SizeCoefficientDen == 1000

\* MIN_RADIUS_SIZE = 0.5
MIN_RADIUS_SIZE == Scale \div 2

\* GRAVITY = 0.2
GRAVITY == RDiv(2 * Scale, 10)

\* CELL_SIZE = 50.0
CELL_SIZE == 50 * Scale

\* The literal 1e-8 of the narrow phase: below the grid, so it is 0 here, as
\* adding it to an f32 of 0.2 or more leaves that f32 unchanged.
EPSILON == RDiv(Scale, 100000000)

----------------------------------------------------------------------------
(* The narrow phase *)

Circle(x, y, r, vx, vy, id) ==
    [x_pos |-> x, y_pos |-> y, radius |-> r, velocity |-> <<vx, vy>>, id |-> id]

StaticCircle(x, y, r) == [x_pos |-> x, y_pos |-> y, radius |-> r]

StaticRectangle(x, y, w, h) == [x_pos |-> x, y_pos |-> y, width |-> w, height |-> h]

\* The centre distance avoid_collision computes, and its min_distance.
PairDistance(a, b) == Hypot(FSub(b.x_pos, a.x_pos), FSub(b.y_pos, a.y_pos))

PairMinDistance(a, b) == FAdd(a.radius, b.radius)

\* avoid_collision from `let (nx, ny) = ...` on: a1, b1 are the circles as the
\* normal's computation left them, distance is the one computed on entry.
AvoidResolve(a1, b1, nx, ny, distance, min_distance) ==
    LET tx == FNeg(ny)
        ty == nx
        v_an == Dot(nx, a1.velocity[1], ny, a1.velocity[2])
        v_at == Dot(tx, a1.velocity[1], ty, a1.velocity[2])
        v_bn == Dot(nx, b1.velocity[1], ny, b1.velocity[2])
        v_bt == Dot(tx, b1.velocity[1], ty, b1.velocity[2])
        m1 == FMul(a1.radius, a1.radius)
        m2 == FMul(b1.radius, b1.radius)
        nan == IsNaN(v_an) \/ IsNaN(v_bn) \/ IsNaN(m1) \/ IsNaN(m2) \/ m1 + m2 <= 0
        v_an_new == IF nan THEN NaN
                    ELSE RDiv(v_an * (m1 - m2) + 2 * m2 * v_bn, m1 + m2)
        v_bn_new == IF nan THEN NaN
                    ELSE RDiv(v_bn * (m2 - m1) + 2 * m1 * v_an, m1 + m2)
        overlap == IF IsNaN(min_distance) \/ IsNaN(distance) THEN NaN
                   ELSE RDiv(min_distance - distance, 2)
    IN  << [a1 EXCEPT !.velocity = << Dot(v_an_new, nx, v_at, tx),
                                      Dot(v_an_new, ny, v_at, ty) >>,
                      !.x_pos = FSub(a1.x_pos, FMul(overlap, nx)),
                      !.y_pos = FSub(a1.y_pos, FMul(overlap, ny))],
           [b1 EXCEPT !.velocity = << Dot(v_bn_new, nx, v_bt, tx),
                                      Dot(v_bn_new, ny, v_bt, ty) >>,
                      !.x_pos = FAdd(b1.x_pos, FMul(overlap, nx)),
                      !.y_pos = FAdd(b1.y_pos, FMul(overlap, ny))] >>

\* Grid::avoid_collision(circle_a, circle_b): the two circles afterwards.
avoid_collision(circle_a, circle_b) ==
    LET dx == FSub(circle_b.x_pos, circle_a.x_pos)
        dy == FSub(circle_b.y_pos, circle_a.y_pos)
        distance == Hypot(dx, dy)
        min_distance == FAdd(circle_a.radius, circle_b.radius)
    IN  IF FLe(min_distance, distance) THEN <<circle_a, circle_b>>
        ELSE IF FGt(distance, EPSILON)
        THEN AvoidResolve(circle_a, circle_b, FDiv(dx, distance), FDiv(dy, distance),
                          distance, min_distance)
        ELSE LET separation == FAdd(FSub(min_distance, distance), EPSILON)
                 half == IF IsNaN(separation) THEN NaN ELSE RDiv(separation, 2)
                 a1 == [circle_a EXCEPT !.x_pos = FSub(circle_a.x_pos, half)]
                 b1 == [circle_b EXCEPT !.x_pos = FAdd(circle_b.x_pos, half)]
                 dx1 == FSub(b1.x_pos, a1.x_pos)
                 dy1 == FSub(b1.y_pos, a1.y_pos)
             IN  AvoidResolve(a1, b1, FDiv(dx1, separation), FDiv(dy1, separation),
                              distance, min_distance)

\* The reflection both static collisions end with: the circle pushed by
\* overlap along (nx, ny) and its velocity reflected.
ProjectAndReflect(circle, nx, ny, overlap) ==
    LET v_dot_n == Dot(circle.velocity[1], nx, circle.velocity[2], ny)
        twice == IF IsNaN(v_dot_n) THEN NaN ELSE 2 * v_dot_n
    IN  [circle EXCEPT
            !.x_pos = FAdd(circle.x_pos, FMul(overlap, nx)),
            !.y_pos = FAdd(circle.y_pos, FMul(overlap, ny)),
            !.velocity = << FSub(circle.velocity[1],
                                 FMulC(FMul(twice, nx), ElasticityNum, ElasticityDen)),
                            FSub(circle.velocity[2],
                                 FMulC(FMul(twice, ny), ElasticityNum, ElasticityDen)) >>]

\* Grid::circle_static_circle_collision(circle, static_circle): the circle afterwards.
circle_static_circle_collision(circle, static_circle) ==
    LET dx == FSub(circle.x_pos, static_circle.x_pos)
        dy == FSub(circle.y_pos, static_circle.y_pos)
        distance == Hypot(dx, dy)
        min_distance == FAdd(circle.radius, static_circle.radius)
    IN  IF FLt(distance, min_distance)
        THEN ProjectAndReflect(circle, FDiv(dx, distance), FDiv(dy, distance),
                               FSub(min_distance, distance))
        ELSE circle

\* fn clamp(value, min, max)
clamp(value, min, max) == IF FLt(value, min) THEN min
                          ELSE IF FGt(value, max) THEN max
                          ELSE value

\* The normal circle_static_rectangle_collision picks from dx, dy and distance.
RectangleNormal(dx, dy, distance) ==
    IF FGt(distance, EPSILON) THEN << FDiv(dx, distance), FDiv(dy, distance) >>
    ELSE IF FGt(FAbs(dx), FAbs(dy)) THEN << FSignum(dx), 0 >>
    ELSE << 0, FSignum(dy) >>

\* Grid::circle_static_rectangle_collision(circle, rect): the circle afterwards.
circle_static_rectangle_collision(circle, rect) ==
    LET closest_x == clamp(circle.x_pos, rect.x_pos, FAdd(rect.x_pos, rect.width))
        closest_y == clamp(circle.y_pos, rect.y_pos, FAdd(rect.y_pos, rect.height))
        dx == FSub(circle.x_pos, closest_x)
        dy == FSub(circle.y_pos, closest_y)
        distance == Hypot(dx, dy)
        n == RectangleNormal(dx, dy, distance)
    IN  IF ~IsNaN(dx) /\ ~IsNaN(dy) /\ ~IsNaN(circle.radius)
           /\ dx * dx + dy * dy < circle.radius * circle.radius
        THEN ProjectAndReflect(circle, n[1], n[2], FSub(circle.radius, distance))
        ELSE circle

----------------------------------------------------------------------------
(* The steps of Grid::tick, each over the whole Vec of circles *)

\* sub_ticks as f32
SubTicksF(sub_ticks) == sub_ticks * Scale

\* Air resistance and the size change of one circle.  angle.cos() and
\* angle.sin() of angle = atan2(vy, vx) are vx/velocity and vy/velocity,
\* and 1.0 and 0.0 for the zero vector, whose atan2 is 0.
ApplyForces(circle) ==
    LET vx == circle.velocity[1]
        vy == circle.velocity[2]
        velocity == Hypot(vx, vy)
        resistance == FMulC(velocity, AirDensityNum, AirDensityDen)
        cos == IF velocity = 0 THEN Scale ELSE FDiv(vx, velocity)
        sin == IF velocity = 0 THEN 0 ELSE FDiv(vy, velocity)
    IN  [circle EXCEPT
            !.velocity = << FSub(vx, FMul(resistance, cos)),
                            FSub(vy, FMul(resistance, sin)) >>,
            !.radius = FMulC(circle.radius, SizeCoefficientNum, SizeCoefficientDen)]

\* A prune that removes nothing.
RetainedAll(cs) == cs

\* self.circles.retain(|circle| circle.radius >= MIN_RADIUS_SIZE)
Retained(cs) == SelectSeq(cs, LAMBDA c : FGe(c.radius, MIN_RADIUS_SIZE))

ApplyGravity(circle, sub_ticks) ==
    [circle EXCEPT !.velocity[2] = FAdd(@, FDiv(GRAVITY, SubTicksF(sub_ticks)))]

MoveCircle(circle, sub_ticks) ==
    [circle EXCEPT
        !.x_pos = FAdd(@, FDiv(circle.velocity[1], SubTicksF(sub_ticks))),
        !.y_pos = FAdd(@, FDiv(circle.velocity[2], SubTicksF(sub_ticks)))]

\* One wall test of the four: the coordinate and velocity component after it.
BounceLow(pv, radius) ==
    IF FLt(FSub(pv[1], radius), 0)
    THEN << radius, FMulC(FNeg(pv[2]), ElasticityNum, ElasticityDen) >>
    ELSE pv

BounceHigh(pv, radius, limit) ==
    IF FGt(FAdd(pv[1], radius), limit)
    THEN << FSub(limit, radius), FMulC(FNeg(pv[2]), ElasticityNum, ElasticityDen) >>
    ELSE pv

\* The wall tests against the world of the last frame, whatever w and h are.
WallBounceStale(circle, w, h) ==
    LET x == BounceHigh(BounceLow(<<circle.x_pos, circle.velocity[1]>>, circle.radius),
                        circle.radius, frame.width)
        y == BounceHigh(BounceLow(<<circle.y_pos, circle.velocity[2]>>, circle.radius),
                        circle.radius, frame.height)
    IN  [circle EXCEPT !.x_pos = x[1], !.y_pos = y[1], !.velocity = << x[2], y[2] >>]

\* The four wall tests on one circle, in the program's order.
WallBounce(circle, w, h) ==
    LET x == BounceHigh(BounceLow(<<circle.x_pos, circle.velocity[1]>>, circle.radius),
                        circle.radius, w)
        y == BounceHigh(BounceLow(<<circle.y_pos, circle.velocity[2]>>, circle.radius),
                        circle.radius, h)
    IN  [circle EXCEPT !.x_pos = x[1], !.y_pos = y[1], !.velocity = << x[2], y[2] >>]

\* (value / CELL_SIZE).floor() as i32; NaN casts to 0.  The quotient of an f32
\* by 50.0 never rounds across an integer, so this is the exact floor.
CellOf(value) == IF IsNaN(value) THEN 0 ELSE value \div CELL_SIZE

\* The cells circle covers.
CellsOf(circle) ==
    (CellOf(FSub(circle.x_pos, circle.radius)) .. CellOf(FAdd(circle.x_pos, circle.radius)))
    \X
    (CellOf(FSub(circle.y_pos, circle.radius)) .. CellOf(FAdd(circle.y_pos, circle.radius)))

\* A grid whose cells hold every index twice.
BuildGridTwice(cs) ==
    LET cells == UNION { CellsOf(cs[i]) : i \in 1..Len(cs) }
        IndexVec(cell) == SelectSeq([i \in 1..Len(cs) |-> i],
                                    LAMBDA i : cell \in CellsOf(cs[i]))
    IN  { << cell, IndexVec(cell) \o IndexVec(cell) >> : cell \in cells }

\* The HashMap built from cs: each covered cell with its Vec of indices, which
\* enumerate() fills in increasing order.  Indices count from 1 here.
BuildGrid(cs) ==
    LET cells == UNION { CellsOf(cs[i]) : i \in 1..Len(cs) }
        IndexVec(cell) == SelectSeq([i \in 1..Len(cs) |-> i],
                                    LAMBDA i : cell \in CellsOf(cs[i]))
    IN  { << cell, IndexVec(cell) >> : cell \in cells }

\* Grid::get_two_mut(i, j) followed by avoid_collision on the two circles.
CollidePair(cs, i, j) ==
    LET ab == avoid_collision(cs[i], cs[j])
    IN  [cs EXCEPT ![i] = ab[1], ![j] = ab[2]]

\* The two nested loops over one cell's Vec, from (idx1, idx2) on.
RECURSIVE CollideBucket(_, _, _, _)
CollideBucket(cs, circle_indices, idx1, idx2) ==
    LET len == Len(circle_indices)
    IN  IF idx1 > len THEN cs
        ELSE IF idx2 > len THEN CollideBucket(cs, circle_indices, idx1 + 1, idx1 + 2)
        ELSE CollideBucket(CollidePair(cs, circle_indices[idx1], circle_indices[idx2]),
                           circle_indices, idx1, idx2 + 1)

\* The assert!(i != j) of get_two_mut holds for every pair of one cell's Vec.
BucketAssertsHold(circle_indices) ==
    \A idx1, idx2 \in 1..Len(circle_indices) :
        idx1 < idx2 => circle_indices[idx1] # circle_indices[idx2]

\* `for static_circle in &self.static_circles { ... }` on one circle, from
\* the k-th static circle on.
RECURSIVE AgainstStaticCircles(_, _, _)
AgainstStaticCircles(circle, statics, k) ==
    IF k > Len(statics) THEN circle
    ELSE AgainstStaticCircles(circle_static_circle_collision(circle, statics[k]),
                              statics, k + 1)

\* `for static_rectangle in &self.static_rectangles { ... }` on one circle,
\* from the k-th static rectangle on.
RECURSIVE AgainstStaticRectangles(_, _, _)
AgainstStaticRectangles(circle, statics, k) ==
    IF k > Len(statics) THEN circle
    ELSE AgainstStaticRectangles(circle_static_rectangle_collision(circle, statics[k]),
                                 statics, k + 1)

----------------------------------------------------------------------------
(* Bounds and inputs of the model *)

\* try_send calls made in one behaviour of Spec, and of SpecChannel.
MaxSends == 2
MaxChannelSends == 4

\* Frames yielded in one behaviour.
MaxFrames == 2

\* The buffer argument of mpsc::channel.  The program passes 100; the model
\* passes this smaller number, which leaves the channel's rule unchanged.
ChannelBuffer == 1

\* Senders of the channel: the one Sender the frame stream's creator keeps.
NumSenders == 1

\* The world passed to new_throttled_grid_frame_stream.
InitialWidth == 60 * Scale
InitialHeight == 20 * Scale

AddCircle(x, y, r, vx, vy) ==
    [type |-> "AddCircle", body |-> Circle(x, y, r, vx, vy, 0)]

AddStaticCircle(x, y, r) == [type |-> "AddStaticCircle", body |-> StaticCircle(x, y, r)]

AddStaticRectangle(x, y, w, h) ==
    [type |-> "AddStaticRectangle", body |-> StaticRectangle(x, y, w, h)]

Resize(w, h) == [type |-> "Resize", body |-> [width |-> w, height |-> h]]

\* The commands producers send.
Commands == {
    \* a ball thrown to the right, as App::update adds one every tenth frame
    AddCircle(44 * Scale, 5 * Scale, 5 * Scale, 5 * Scale, 0),
    \* a ball at rest in the bottom right corner, on the bottom wall once it
    \* has shrunk
    AddCircle(55 * Scale, 15 * Scale + 5, 5 * Scale, 0, 0),
    \* balls of a radius just above the minimum, just below it and negative
    AddCircle(30 * Scale, 10 * Scale, MIN_RADIUS_SIZE + 1, 0, 0),
    AddCircle(30 * Scale, 10 * Scale, MIN_RADIUS_SIZE - 1, 0, 0),
    AddCircle(30 * Scale, 10 * Scale, -Scale, 0, 0),
    AddStaticCircle(52 * Scale, 5 * Scale, 3 * Scale),
    AddStaticRectangle(40 * Scale, 18 * Scale, 20 * Scale, 2 * Scale),
    Resize(60 * Scale + 20, 20 * Scale + 20),
    Resize(64 * Scale, 24 * Scale) }

\* The commands producers send in SpecChannel.
ChannelCommands == {
    AddCircle(30 * Scale, 10 * Scale, MIN_RADIUS_SIZE + 1, 0, 0),
    Resize(64 * Scale, 24 * Scale) }

----------------------------------------------------------------------------
(* The channel: futures::channel::mpsc::channel(buffer) with one Sender *)

\* Whether try_send refuses: the sender is parked.
IsFull(is_parked) == is_parked

\* A channel that never parks its sender.
NeverParks(num_messages) == FALSE

\* Whether a send that leaves num_messages in the channel parks the sender.
ParksSender(num_messages) == num_messages > ChannelBuffer

\* Sender::try_send(message), the try_send of App::update.  A refused message
\* is dropped by the caller, which only prints.  An accepted one is queued (with
\* its history: the number of the call, the drains started before it and
\* whether one was running).
TrySend(c, limit) ==
    /\ attempts < limit
    /\ attempts' = attempts + 1
    /\ IF IsFull(parked)
       THEN /\ rejected' = rejected \cup {attempts + 1}
            /\ UNCHANGED <<queue, parked>>
       ELSE /\ queue' = Append(queue, [cmd |-> c, id |-> attempts + 1,
                                       epoch |-> drains, draining |-> pc = "drain"])
            /\ parked' = ParksSender(Len(queue) + 1)
            /\ UNCHANGED rejected
    /\ UNCHANGED <<frame_number, width, height, circles, static_circles,
                   static_rectangles, pc, messages, sub, todo, frame, drains,
                   applied, call>>

----------------------------------------------------------------------------
(* The loop of new_throttled_grid_frame_stream *)

\* interval.tick().await returns; `let mut messages = Vec::new()`.
IntervalTick ==
    /\ pc = "wait"
    /\ frame_number < MaxFrames
    /\ pc' = "drain"
    /\ messages' = << >>
    /\ drains' = drains + 1
    /\ UNCHANGED <<frame_number, width, height, circles, static_circles,
                   static_rectangles, queue, parked, sub, todo, frame, attempts,
                   applied, rejected, call>>

\* A try_next that takes the newest message instead of the oldest.
TakeLast(q) == << q[Len(q)], SubSeq(q, 1, Len(q) - 1) >>

\* What try_next takes from a channel holding q, and what it leaves there.
TakeNext(q) == << Head(q), Tail(q) >>

\* One turn of `while let Ok(Some(message)) = try_next()`: a message is taken
\* (which unparks the sender) and pushed, or the channel is empty and the loop ends.
TryNext ==
    /\ pc = "drain"
    /\ IF queue # << >>
       THEN /\ messages' = Append(messages, TakeNext(queue)[1])
            /\ queue' = TakeNext(queue)[2]
            /\ parked' = FALSE
            /\ pc' = pc
       ELSE /\ pc' = "apply"
            /\ UNCHANGED <<messages, queue, parked>>
    /\ UNCHANGED <<frame_number, width, height, circles, static_circles,
                   static_rectangles, sub, todo, frame, attempts, drains,
                   applied, rejected, call>>

----------------------------------------------------------------------------
(* Grid::tick(SUBTICKS_PER_FRAME, messages) *)

\* One turn of `for message in messages`.
ApplyMessage ==
    /\ pc = "apply"
    /\ messages # << >>
    /\ LET m == Head(messages)
           c == m.cmd
       IN  /\ circles' = IF c.type = "AddCircle"
                         THEN Append(circles, [c.body EXCEPT !.id = m.id])
                         ELSE circles
           /\ static_circles' = IF c.type = "AddStaticCircle"
                                THEN Append(static_circles, c.body)
                                ELSE static_circles
           /\ static_rectangles' = IF c.type = "AddStaticRectangle"
                                   THEN Append(static_rectangles, c.body)
                                   ELSE static_rectangles
           /\ width' = IF c.type = "Resize" THEN c.body.width ELSE width
           /\ height' = IF c.type = "Resize" THEN c.body.height ELSE height
           /\ applied' = Append(applied, [id |-> m.id, cmd |-> c, tick |-> frame_number + 1])
    /\ messages' = Tail(messages)
    /\ UNCHANGED <<frame_number, queue, parked, pc, sub, todo, frame, attempts,
                   drains, rejected, call>>

\* "Apply subtick-independent forces first": air resistance and size change.
Forces ==
    /\ pc = "apply"
    /\ messages = << >>
    /\ circles' = [i \in 1..Len(circles) |-> ApplyForces(circles[i])]
    /\ pc' = "retain"
    /\ UNCHANGED <<frame_number, width, height, static_circles, static_rectangles,
                   queue, parked, messages, sub, todo, frame, attempts, drains,
                   applied, rejected, call>>

\* self.circles.retain(...), then the sub-step loop is entered.
Retain ==
    /\ pc = "retain"
    /\ circles' = Retained(circles)
    /\ sub' = 0
    /\ pc' = IF SUBTICKS_PER_FRAME > 0 THEN "gravity" ELSE "emit"
    /\ UNCHANGED <<frame_number, width, height, static_circles, static_rectangles,
                   queue, parked, messages, todo, frame, attempts, drains,
                   applied, rejected, call>>

Gravity ==
    /\ pc = "gravity"
    /\ circles' = [i \in 1..Len(circles) |->
                      ApplyGravity(circles[i], SUBTICKS_PER_FRAME)]
    /\ pc' = "move"
    /\ UNCHANGED <<frame_number, width, height, static_circles, static_rectangles,
                   queue, parked, messages, sub, todo, frame, attempts, drains,
                   applied, rejected, call>>

Move ==
    /\ pc = "move"
    /\ circles' = [i \in 1..Len(circles) |->
                      MoveCircle(circles[i], SUBTICKS_PER_FRAME)]
    /\ pc' = "walls"
    /\ UNCHANGED <<frame_number, width, height, static_circles, static_rectangles,
                   queue, parked, messages, sub, todo, frame, attempts, drains,
                   applied, rejected, call>>

Walls ==
    /\ pc = "walls"
    /\ circles' = [i \in 1..Len(circles) |-> WallBounce(circles[i], width, height)]
    /\ pc' = "grid"
    /\ UNCHANGED <<frame_number, width, height, static_circles, static_rectangles,
                   queue, parked, messages, sub, todo, frame, attempts, drains,
                   applied, rejected, call>>

\* "Build the spatial grid for collision detection."
Grid ==
    /\ pc = "grid"
    /\ todo' = BuildGrid(circles)
    /\ pc' = "pairs"
    /\ UNCHANGED <<frame_number, width, height, circles, static_circles,
                   static_rectangles, queue, parked, messages, sub, frame,
                   attempts, drains, applied, rejected, call>>

\* One turn of `for circle_indices in grid.values()`: a HashMap yields its
\* values in an order the program does not fix, so any cell left may come next.
\* A failing assert!(i != j) ends the stream.
Pairs ==
    /\ pc = "pairs"
    /\ \E entry \in todo :
        /\ todo' = todo \ {entry}
        /\ IF BucketAssertsHold(entry[2])
           THEN /\ circles' = CollideBucket(circles, entry[2], 1, 2)
                /\ pc' = pc
           ELSE /\ pc' = "panicked"
                /\ UNCHANGED circles
    /\ UNCHANGED <<frame_number, width, height, static_circles, static_rectangles,
                   queue, parked, messages, sub, frame, attempts, drains,
                   applied, rejected, call>>

\* "Handle collisions between dynamic circles and static circles"
StaticCircles ==
    /\ pc = "pairs"
    /\ todo = {}
    /\ circles' = [i \in 1..Len(circles) |->
                      AgainstStaticCircles(circles[i], static_circles, 1)]
    /\ pc' = "static_rectangles"
    /\ UNCHANGED <<frame_number, width, height, static_circles, static_rectangles,
                   queue, parked, messages, sub, todo, frame, attempts, drains,
                   applied, rejected, call>>

\* "Handle collisions between dynamic circles and static rectangles", which
\* ends the sub-step.
StaticRectangles ==
    /\ pc = "static_rectangles"
    /\ circles' = [i \in 1..Len(circles) |->
                      AgainstStaticRectangles(circles[i], static_rectangles, 1)]
    /\ sub' = sub + 1
    /\ pc' = IF sub + 1 < SUBTICKS_PER_FRAME THEN "gravity" ELSE "emit"
    /\ UNCHANGED <<frame_number, width, height, static_circles, static_rectangles,
                   queue, parked, messages, todo, frame, attempts, drains,
                   applied, rejected, call>>

\* The GridFrame tick returns.
GridFrame(n) ==
    [frame_number |-> n, width |-> width, height |-> height, circles |-> circles,
     static_circles |-> static_circles, static_rectangles |-> static_rectangles]

\* A counter that skips a number.
IncrementTwice(n) == n + 2

\* self.frame_number += 1
Increment(n) == n + 1

\* self.frame_number += 1, and the frame is built and yielded.
Emit ==
    /\ pc = "emit"
    /\ frame_number' = Increment(frame_number)
    /\ frame' = GridFrame(frame_number')
    /\ pc' = "wait"
    /\ UNCHANGED <<width, height, circles, static_circles, static_rectangles,
                   queue, parked, messages, sub, todo, attempts, drains,
                   applied, rejected, call>>

----------------------------------------------------------------------------
(* The program: producers and the frame stream *)

NoCall == [fn |-> "none", n |-> 0, pre |-> << >>, post |-> << >>]

\* Grid::new(width, height) and the channel it creates.
Init ==
    /\ frame_number = 0
    /\ width = InitialWidth
    /\ height = InitialHeight
    /\ circles = << >>
    /\ static_circles = << >>
    /\ static_rectangles = << >>
    /\ queue = << >>
    /\ parked = FALSE
    /\ pc = "wait"
    /\ messages = << >>
    /\ sub = 0
    /\ todo = {}
    /\ frame = [frame_number |-> 0, width |-> InitialWidth, height |-> InitialHeight,
                circles |-> << >>, static_circles |-> << >>,
                static_rectangles |-> << >>]
    /\ attempts = 0
    /\ drains = 0
    /\ applied = << >>
    /\ rejected = {}
    /\ call = NoCall

Tick ==
    \/ ApplyMessage
    \/ Forces
    \/ Retain
    \/ Gravity
    \/ Move
    \/ Walls
    \/ Grid
    \/ Pairs
    \/ StaticCircles
    \/ StaticRectangles
    \/ Emit

Next ==
    \/ \E c \in Commands : TrySend(c, MaxSends)
    \/ IntervalTick
    \/ TryNext
    \/ Tick

Spec == Init /\ [][Next]_vars

\* The same program with producers that send more commands, of fewer kinds.
NextChannel ==
    \/ \E c \in ChannelCommands : TrySend(c, MaxChannelSends)
    \/ IntervalTick
    \/ TryNext
    \/ Tick

SpecChannel == Init /\ [][NextChannel]_vars

----------------------------------------------------------------------------
(* Claims about the frame counter and the command channel *)

\* C1: from 0 at Grid::new, every tick raises frame_number by exactly 1 and
\* the frame it returns carries the new value: the k-th tick yields frame k.
C1_FrameNumbering ==
    /\ frame.frame_number = frame_number
    /\ frame_number = IF pc = "wait" THEN drains ELSE drains - 1

\* Two ticks have run, with commands applied and a circle in the world.
C1_Witness ==
    /\ frame.frame_number >= 2
    /\ applied # << >>
    /\ frame.circles # << >>

Ids(entries) == [i \in 1..Len(entries) |-> entries[i].id]

\* The commands accepted so far, oldest first, wherever they are now.
AcceptedOrder == Ids(applied) \o Ids(messages) \o Ids(queue)

\* The numbers of the try_send calls that returned Ok, in the order of the calls.
Accepted == SelectSeq([i \in 1..attempts |-> i], LAMBDA i : i \notin rejected)

\* Where tick runs its physics, after the loop over the messages.
PhysicsSteps == {"retain", "gravity", "move", "walls", "grid", "pairs",
                 "static_rectangles", "emit"}

\* Every accepted command is applied once and in the order sent, none is lost,
\* and tick has applied all it was given before any of its physics.
AppliedOnceInOrder ==
    /\ AcceptedOrder = Accepted
    /\ pc \in PhysicsSteps \cup {"wait"} => messages = << >>
    /\ \A i \in 1..Len(applied) :
        /\ applied[i].tick <= drains
        /\ i > 1 => applied[i - 1].tick <= applied[i].tick

\* C2 as claimed: commands are applied once, in order, before the physics,
\* each by the first tick whose drain starts after the command was enqueued.
C2_AppliedByFirstDrainStartedAfter ==
    /\ AppliedOnceInOrder
    /\ \A i \in 1..Len(messages) : messages[i].epoch + 1 = drains
    /\ pc # "drain" => \A i \in 1..Len(queue) : queue[i].epoch = drains

\* C2 as amended: commands are applied once, in order, before the physics,
\* each by the tick whose drain was running when the command was enqueued or,
\* when none was, by the first tick whose drain starts after the enqueue.
C2_AppliedByRunningOrNextDrain ==
    /\ AppliedOnceInOrder
    /\ \A i \in 1..Len(messages) :
        \/ messages[i].epoch + 1 = drains /\ ~messages[i].draining
        \/ messages[i].epoch = drains /\ messages[i].draining
    /\ \A i \in 1..Len(queue) :
        IF pc = "drain"
        THEN \/ queue[i].epoch + 1 = drains /\ ~queue[i].draining
             \/ queue[i].epoch = drains /\ queue[i].draining
        ELSE queue[i].epoch = drains /\ ~queue[i].draining

\* A tick is about to apply a command enqueued before its drain started,
\* followed by one enqueued while that drain was running.
C2_Witness ==
    /\ pc = "apply"
    /\ Len(messages) >= 2
    /\ ~messages[1].draining
    /\ messages[2].draining

\* C3: the channel never holds more than a fixed number of commands; a
\* try_send that finds it full is refused at once, leaves the channel as it was
\* and its command is never applied; and a full channel never keeps the stream
\* from starting its next tick or from taking the next message.
C3_BoundedFailFast ==
    /\ []( /\ Len(queue) <= ChannelBuffer + NumSenders
           /\ IsFull(parked) <=> Len(queue) = ChannelBuffer + NumSenders
           /\ \A i \in 1..Len(AcceptedOrder) : AcceptedOrder[i] \notin rejected
           /\ IsFull(parked) /\ pc = "wait" /\ frame_number < MaxFrames =>
                  ENABLED IntervalTick
           /\ IsFull(parked) /\ pc = "drain" => ENABLED TryNext )
    /\ [][ (attempts' # attempts /\ Len(queue) = ChannelBuffer + NumSenders) =>
              /\ rejected' = rejected \cup {attempts'}
              /\ UNCHANGED <<queue, parked, pc, messages, circles, frame_number>> ]_vars

\* A command was refused, the stream drained the channel all the same, and a
\* command sent after the refusal has been applied.
C3_Witness ==
    \E r \in rejected : \E i \in 1..Len(applied) : applied[i].id > r

----------------------------------------------------------------------------
(* Claims about the world's walls, the prune and the resize *)

\* The circle lies within the walls of a w by h world.
WithinWalls(c, w, h) ==
    /\ FLe(c.radius, c.x_pos) /\ FLe(c.x_pos, FSub(w, c.radius))
    /\ FLe(c.radius, c.y_pos) /\ FLe(c.y_pos, FSub(h, c.radius))

\* The circle moves less than the world's smaller side in one sub-step.
SmallDisplacement(c, w, h) ==
    /\ FLt(FAbs(FDiv(c.velocity[1], SubTicksF(SUBTICKS_PER_FRAME))), h)
    /\ FLt(FAbs(FDiv(c.velocity[2], SubTicksF(SUBTICKS_PER_FRAME))), h)
    /\ FLt(h, w) \/ h = w

\* Every circle, in every step of every tick, moves less than the world's
\* smaller side in one sub-step.
AlwaysSmallDisplacement ==
    \A i \in 1..Len(circles) : SmallDisplacement(circles[i], width, height)

\* C4: every dynamic circle of a frame returned by tick lies within the
\* world's walls, whatever collision pushed it in the last sub-step.
C4_FrameCirclesWithinWalls ==
    frame.frame_number >= 1 =>
        \A i \in 1..Len(frame.circles) :
            SmallDisplacement(frame.circles[i], frame.width, frame.height) =>
                WithinWalls(frame.circles[i], frame.width, frame.height)

\* The ids of the dynamic circles, in the store's order.
CircleIds(cs) == [i \in 1..Len(cs) |-> cs[i].id]

\* C5: every dynamic circle of every frame has at least the minimum radius,
\* also one added in the frame's tick with a smaller or negative radius; and
\* the store's circles change only by an AddCircle appending one and by the
\* prune removing those below the minimum, every other step keeping them all
\* and in their order.
C5_MinimumRadiusAndSolePrune ==
    /\ []( /\ \A i \in 1..Len(frame.circles) :
                FGe(frame.circles[i].radius, MIN_RADIUS_SIZE)
           /\ pc \notin {"apply", "retain"} =>
                \A i \in 1..Len(circles) : FGe(circles[i].radius, MIN_RADIUS_SIZE) )
    /\ [][ CircleIds(circles') # CircleIds(circles) =>
              \/ /\ pc = "apply"
                 /\ messages # << >>
                 /\ Head(messages).cmd.type = "AddCircle"
                 /\ CircleIds(circles') = Append(CircleIds(circles), Head(messages).id)
              \/ /\ pc = "retain"
                 /\ circles' = SelectSeq(circles,
                                  LAMBDA c : ~FLt(c.radius, MIN_RADIUS_SIZE) /\ ~IsNaN(c.radius))
         ]_vars

\* The last tick applied an AddCircle with a radius below the minimum, its
\* frame does not hold that circle and holds another one.
C5_Witness ==
    /\ pc = "wait"
    /\ frame.circles # << >>
    /\ \E i \in 1..Len(applied) :
        /\ applied[i].tick = frame.frame_number
        /\ applied[i].cmd.type = "AddCircle"
        /\ applied[i].cmd.body.radius < MIN_RADIUS_SIZE
        /\ \A k \in 1..Len(frame.circles) : frame.circles[k].id # applied[i].id

\* The Resize commands applied by ticks 1..n, oldest first.
ResizesUpTo(n) ==
    SelectSeq(applied, LAMBDA e : e.cmd.type = "Resize" /\ e.tick <= n)

\* The world after ticks 1..n.
WorldAfter(n) ==
    LET rs == ResizesUpTo(n)
    IN  IF rs = << >> THEN << InitialWidth, InitialHeight >>
        ELSE << rs[Len(rs)].cmd.body.width, rs[Len(rs)].cmd.body.height >>

\* The world is the one of the last Resize applied, the tick's physics runs
\* with all of the tick's commands applied, and a frame reports its tick's world.
WorldFollowsResize ==
    /\ << width, height >> = WorldAfter(drains)
    /\ pc \in PhysicsSteps => messages = << >>
    /\ << frame.width, frame.height >> = WorldAfter(frame.frame_number)

\* The tick under way has grown the world of the last frame.
Grew ==
    /\ frame.frame_number >= 1
    /\ pc \in PhysicsSteps
    /\ FGe(width, frame.width) /\ FGe(height, frame.height)
    /\ FGt(width, frame.width) \/ FGt(height, frame.height)

\* The circle rested against the right or bottom wall in the last frame.
Rested(c) ==
    \E k \in 1..Len(frame.circles) :
        /\ frame.circles[k].id = c.id
        /\ \/ FAdd(frame.circles[k].x_pos, frame.circles[k].radius) = frame.width
           \/ FAdd(frame.circles[k].y_pos, frame.circles[k].radius) = frame.height

\* An edge of the circle is beyond a wall of the w by h world.
CrossesWall(c, w, h) ==
    \/ FLt(FSub(c.x_pos, c.radius), 0) \/ FGt(FAdd(c.x_pos, c.radius), w)
    \/ FLt(FSub(c.y_pos, c.radius), 0) \/ FGt(FAdd(c.y_pos, c.radius), h)

\* C6 as claimed: the world changes only by an applied Resize, the tick uses
\* and reports the last one, and after a growth no wall-bounce step of the
\* tick moves a circle that rested against the old right or bottom wall.
C6_GrowthNeverMovesRested ==
    /\ []WorldFollowsResize
    /\ [][ (pc = "walls" /\ Grew) =>
              \A i \in 1..Len(circles) :
                  Rested(circles[i]) => circles'[i] = circles[i] ]_vars

\* C6 as amended: the world changes only by an applied Resize, the tick uses
\* and reports the last one, and after a growth a wall-bounce step of the tick
\* moves a circle that rested against the old right or bottom wall only when
\* an edge of it is beyond a wall of the new world, and then puts it within
\* the new walls.
C6_GrowthMovesRestedOnlyToNewWalls ==
    /\ []WorldFollowsResize
    /\ [][ (pc = "walls" /\ Grew) =>
              \A i \in 1..Len(circles) :
                  (Rested(circles[i]) /\ circles'[i] # circles[i]) =>
                      /\ CrossesWall(circles[i], width, height)
                      /\ WithinWalls(circles'[i], width, height) ]_vars

\* The world has grown, a wall-bounce step has run, and a circle that rested
\* against an old wall has fallen beyond it and is clear of the new walls.
C6_Witness ==
    /\ Grew
    /\ pc = "grid"
    /\ \E i \in 1..Len(circles) :
        /\ Rested(circles[i])
        /\ CrossesWall(circles[i], frame.width, frame.height)
        /\ ~CrossesWall(circles[i], width, height)

----------------------------------------------------------------------------
(* Claim about the pairs the spatial grid hands to get_two_mut *)

\* C12: every pair of indices a cell's Vec yields has two different indices,
\* both of circles in the store, however many cells a circle covers and however
\* many circles share a cell; the assert of get_two_mut never fails.
C12_PairsAreDistinctAndInRange ==
    /\ pc # "panicked"
    /\ pc = "pairs" =>
        \A entry \in todo :
            /\ BucketAssertsHold(entry[2])
            /\ \A k \in 1..Len(entry[2]) : entry[2][k] \in 1..Len(circles)

\* The pairs of a sub-step are being taken from a grid in which one circle
\* covers two cells and one cell holds two circles.
C12_Witness ==
    /\ pc = "pairs"
    /\ \E e1, e2 \in todo :
        /\ e1 # e2
        /\ Len(e1[2]) >= 2
        /\ \E k \in 1..Len(e1[2]), l \in 1..Len(e2[2]) : e1[2][k] = e2[2][l]

----------------------------------------------------------------------------
(* The narrow phase and the wall test called on chosen inputs *)

\* Centre offsets of the second circle from the first, in units.
Offsets == {0, Scale \div 2, Scale, (3 * Scale) \div 2, 3 * Scale, 4 * Scale, 5 * Scale}

\* Pairs of dynamic circles: the first at (10, 10), the second at an offset.
PairInputs ==
    { << Circle(10 * Scale, 10 * Scale, ra, va[1], va[2], 1),
         Circle(10 * Scale + dx, 10 * Scale + dy, 2 * Scale, vb[1], vb[2], 2) >> :
        ra \in {(3 * Scale) \div 2, 3 * Scale},
        va \in {<<Scale, 0>>, <<5 * Scale, 2 * Scale>>},
        vb \in {<<-Scale, 0>>, <<5 * Scale, 2 * Scale>>},
        dx \in Offsets, dy \in Offsets }

\* A dynamic circle of radius 2 near a static body at (10, 10) .. (14, 14).
ProbeInputs ==
    { Circle(x, y, 2 * Scale, v[1], v[2], 1) :
        x \in {7 * Scale, 9 * Scale, 10 * Scale, 11 * Scale, 12 * Scale, 13 * Scale,
               16 * Scale + 7},
        y \in {7 * Scale, 11 * Scale, 12 * Scale, 13 * Scale + 100, 15 * Scale},
        v \in {<<3 * Scale, 0>>, <<-2 * Scale, 4 * Scale>>, <<0, -3 * Scale>>} }

ProbeStaticCircle == StaticCircle(12 * Scale, 12 * Scale, 2 * Scale)

ProbeStaticRectangle == StaticRectangle(10 * Scale, 10 * Scale, 4 * Scale, 4 * Scale)

\* The world the wall test is called in.
ProbeWorld == [width |-> 14 * Scale, height |-> 14 * Scale]

InitNarrow ==
    /\ frame_number = 0
    /\ width = ProbeWorld.width
    /\ height = ProbeWorld.height
    /\ circles = << >>
    /\ static_circles = << ProbeStaticCircle >>
    /\ static_rectangles = << ProbeStaticRectangle >>
    /\ queue = << >>
    /\ parked = FALSE
    /\ pc = "narrow"
    /\ messages = << >>
    /\ sub = 0
    /\ todo = {}
    /\ frame = [frame_number |-> 0, width |-> ProbeWorld.width,
                height |-> ProbeWorld.height, circles |-> << >>,
                static_circles |-> << >>, static_rectangles |-> << >>]
    /\ attempts = 0
    /\ drains = 0
    /\ applied = << >>
    /\ rejected = {}
    /\ \/ \E p \in PairInputs :
            call = [fn |-> "avoid_collision", n |-> 0, pre |-> p, post |-> p]
       \/ \E c \in ProbeInputs, f \in {"circle_static_circle_collision",
                                       "circle_static_rectangle_collision",
                                       "wall_bounce"} :
            call = [fn |-> f, n |-> 0, pre |-> <<c>>, post |-> <<c>>]

\* The harness after a call whose result is `result`: calls follow one
\* another, each on the result of the call before.
Called(result) == [call EXCEPT !.n = @ + 1, !.pre = call.post, !.post = result]

CallAvoidCollision ==
    /\ call.fn = "avoid_collision"
    /\ call.n < 2
    /\ call' = Called(avoid_collision(call.post[1], call.post[2]))
    /\ UNCHANGED <<frame_number, width, height, circles, static_circles,
                   static_rectangles, queue, parked, pc, messages, sub, todo,
                   frame, attempts, drains, applied, rejected>>

CallStaticCircle ==
    /\ call.fn = "circle_static_circle_collision"
    /\ call.n < 2
    /\ call' = Called(<< circle_static_circle_collision(call.post[1],
                                                        static_circles[1]) >>)
    /\ UNCHANGED <<frame_number, width, height, circles, static_circles,
                   static_rectangles, queue, parked, pc, messages, sub, todo,
                   frame, attempts, drains, applied, rejected>>

CallStaticRectangle ==
    /\ call.fn = "circle_static_rectangle_collision"
    /\ call.n < 2
    /\ call' = Called(<< circle_static_rectangle_collision(call.post[1],
                                                           static_rectangles[1]) >>)
    /\ UNCHANGED <<frame_number, width, height, circles, static_circles,
                   static_rectangles, queue, parked, pc, messages, sub, todo,
                   frame, attempts, drains, applied, rejected>>

CallWallBounce ==
    /\ call.fn = "wall_bounce"
    /\ call.n < 2
    /\ call' = Called(<< WallBounce(call.post[1], width, height) >>)
    /\ UNCHANGED <<frame_number, width, height, circles, static_circles,
                   static_rectangles, queue, parked, pc, messages, sub, todo,
                   frame, attempts, drains, applied, rejected>>

NextNarrow ==
    \/ CallAvoidCollision
    \/ CallStaticCircle
    \/ CallStaticRectangle
    \/ CallWallBounce

SpecNarrow == InitNarrow /\ [][NextNarrow]_vars

----------------------------------------------------------------------------
(* Claims about the narrow phase (SpecNarrow) *)

\* Two numbers of the grid that differ by rounding only.
Tolerance == Scale \div 64
Close(a, b) == ~IsNaN(a) /\ ~IsNaN(b) /\ Abs(a - b) <= Tolerance

\* C7: avoid_collision is idempotent: on a pair whose centre distance is at
\* least the sum of the radii it changes nothing, and the pair it has just
\* resolved is such a pair, so that a second consecutive call changes nothing.
C7_AvoidCollisionIdempotent ==
    (call.fn = "avoid_collision" /\ call.n >= 1) =>
        /\ FGe(PairDistance(call.pre[1], call.pre[2]),
               PairMinDistance(call.pre[1], call.pre[2])) => call.post = call.pre
        /\ call.n = 2 => call.post = call.pre

\* C9: called on two circles whose centres coincide, avoid_collision leaves
\* them with a centre distance equal to the sum of the radii: the nudge is not
\* followed by a second push by the overlap found before it.
C9_CoincidentEndAtMinDistance ==
    (/\ call.fn = "avoid_collision"
     /\ call.n = 1
     /\ FLe(PairDistance(call.pre[1], call.pre[2]), EPSILON)) =>
        Close(PairDistance(call.post[1], call.post[2]),
              PairMinDistance(call.post[1], call.post[2]))

\* The contact normal of the bounce the harness has just made off a static body.
BounceNormal ==
    LET c == call.pre[1]
    IN  IF call.fn = "circle_static_circle_collision"
        THEN LET dx == FSub(c.x_pos, static_circles[1].x_pos)
                 dy == FSub(c.y_pos, static_circles[1].y_pos)
             IN  << FDiv(dx, Hypot(dx, dy)), FDiv(dy, Hypot(dx, dy)) >>
        ELSE LET r == static_rectangles[1]
                 dx == FSub(c.x_pos, clamp(c.x_pos, r.x_pos, FAdd(r.x_pos, r.width)))
                 dy == FSub(c.y_pos, clamp(c.y_pos, r.y_pos, FAdd(r.y_pos, r.height)))
             IN  RectangleNormal(dx, dy, Hypot(dx, dy))

\* e times a velocity component, reversed.
Rebound(v) == FMulC(FNeg(v), ElasticityNum, ElasticityDen)

\* C8: on every bounce off a wall, a static circle or a static rectangle the
\* velocity component along the contact normal is reversed and its size is the
\* elasticity coefficient times its size before; the tangential one is unchanged.
C8_BounceKeepsElasticityShare ==
    (call.n = 1 /\ call.post # call.pre) =>
        LET c == call.pre[1]
            d == call.post[1]
        IN  IF call.fn = "wall_bounce"
            THEN /\ d.velocity[1] = IF d.x_pos # c.x_pos THEN Rebound(c.velocity[1])
                                    ELSE c.velocity[1]
                 /\ d.velocity[2] = IF d.y_pos # c.y_pos THEN Rebound(c.velocity[2])
                                    ELSE c.velocity[2]
            ELSE call.fn \in {"circle_static_circle_collision",
                              "circle_static_rectangle_collision"} =>
                LET n == BounceNormal
                IN  /\ Close(Dot(d.velocity[1], n[1], d.velocity[2], n[2]),
                             Rebound(Dot(c.velocity[1], n[1], c.velocity[2], n[2])))
                    /\ Close(Dot(d.velocity[1], FNeg(n[2]), d.velocity[2], n[1]),
                             Dot(c.velocity[1], FNeg(n[2]), c.velocity[2], n[1]))

\* The centre of circle c lies strictly inside rectangle r.
StrictlyInside(c, r) ==
    /\ FGt(c.x_pos, r.x_pos) /\ FLt(c.x_pos, FAdd(r.x_pos, r.width))
    /\ FGt(c.y_pos, r.y_pos) /\ FLt(c.y_pos, FAdd(r.y_pos, r.height))

\* -1, 0 or 1: the side of the rectangle's middle a coordinate is on.
SideOf(value, low, extent) ==
    IF 2 * (value - low) < extent THEN -1 ELSE IF 2 * (value - low) > extent THEN 1 ELSE 0

\* C10: a circle whose centre lies strictly inside a static rectangle is pushed
\* along one axis, x or y, by a signed unit normal that depends on where the
\* centre is: out towards the side of the rectangle the centre is on.
C10_InsideNormalFollowsPosition ==
    (/\ call.fn = "circle_static_rectangle_collision"
     /\ call.n = 1
     /\ StrictlyInside(call.pre[1], static_rectangles[1])) =>
        LET c == call.pre[1]
            d == call.post[1]
            r == static_rectangles[1]
            mx == d.x_pos - c.x_pos
            my == d.y_pos - c.y_pos
        IN  \/ my = 0 /\ mx # 0 /\ mx * SideOf(c.x_pos, r.x_pos, r.width) >= 0
            \/ mx = 0 /\ my # 0 /\ my * SideOf(c.y_pos, r.y_pos, r.height) >= 0

\* The circle holds no NaN.
Finite(c) ==
    /\ ~IsNaN(c.x_pos) /\ ~IsNaN(c.y_pos) /\ ~IsNaN(c.radius)
    /\ ~IsNaN(c.velocity[1]) /\ ~IsNaN(c.velocity[2])

\* C11: no narrow-phase routine divides by a zero distance: called on circles
\* that hold numbers, also with coinciding centres or a centre inside the
\* rectangle, each of the three routines leaves circles that hold numbers.
C11_NoDivisionByZeroDistance ==
    (/\ call.fn \in {"avoid_collision", "circle_static_circle_collision",
                     "circle_static_rectangle_collision"}
     /\ call.n >= 1
     /\ \A i \in 1..Len(call.pre) : Finite(call.pre[i])) =>
        \A i \in 1..Len(call.post) : Finite(call.post[i])

====
